---- MODULE Spec2Model ----
(***************************************************************************)
(* Rules engine of dev0Guy/ChessGame (src/src/engine): board and location  *)
(* model, the per-piece move generators, the reverse-attack check          *)
(* detector, and Game::validate_move / Game::try_move / Game::is_checkmate *)
(* with the game loop of Game::start.                                      *)
(*                                                                         *)
(* Conventions.  A Rust Vec returned by a generator is modelled by the set *)
(* of its elements.  Option<T> / Result<T, _> are modelled by a set with   *)
(* at most one element ({} is None / Err).                                 *)
(***************************************************************************)
EXTENDS Integers, FiniteSets, Sequences, TLC

VARIABLES board, active, king_pos, pc, n, op, arg, result, gui, before

vars == <<board, active, king_pos, pc, n, op, arg, result, gui, before>>

\* before: the game state a harness had set up when it made its last call of
\* a Game method (<<>> while no such call has been made)
game_state(b, act, kp) == <<b, act, kp>>

---------------------------------------------------------------------------
(* Bounds of the model.                                                    *)

\* committed moves (plies) played in the game loop
MaxMoves == 3
\* the input source names squares of the rightmost MaxInputFiles files only
MaxInputFiles == 5
\* direct calls made by the test harness on one position
MaxCalls == 1
\* side length of the corner windows in which harness positions are set up
Window == 3
\* pieces placed besides the piece under test
MaxOthers == 2
\* largest magnitude of the small offsets handed to Location::offset
MaxOffset == 8
\* longest text handed to Location::from
MaxText == 3
\* committed moves (plies) played when the input source sends Move actions only
MaxPlies == 5

---------------------------------------------------------------------------
(* engine/board/location.rs                                                *)

Files == 0..7
Ranks == 0..7

\* Location { file, rank }, encoded as one index
Location(file, rank) == rank * 8 + file

Locations == 0..63

FileOf(loc) == loc % 8
RankOf(loc) == loc \div 8

\* Rank::from_repr / File::from_repr of an i8 cast to usize: a negative value
\* becomes a huge usize, so only 0..7 yields Some
from_repr(v) == IF v >= 0 /\ v <= 7 THEN {v} ELSE {}

\* variant: the offset is taken on the square index, so a step off one
\* edge of a rank lands on the neighbouring rank
offset_on_index(loc, rank_offset, file_offset) ==
    LET v == loc + rank_offset * 8 + file_offset IN
    IF v >= 0 /\ v <= 63 THEN {v} ELSE {}

\* Location::offset: Ok(location) as {location}, Err as {}
offset(loc, rank_offset, file_offset) ==
    { Location(f, r) : f \in from_repr(FileOf(loc) + file_offset),
                       r \in from_repr(RankOf(loc) + rank_offset) }

---------------------------------------------------------------------------
(* engine/board/pieces.rs                                                  *)

Sides == {"White", "Black"}
PieceTypes == {"Pawn", "Rook", "Knight", "Bishop", "Queen", "King"}

\* Piece::new: has_moved is the flag king.rs matches on; new pieces have it false
Piece(piece_type, side) ==
    [piece_type |-> piece_type, side |-> side, has_moved |-> FALSE]

\* Option<Piece>::None
None == [piece_type |-> "None", side |-> "None", has_moved |-> FALSE]

\* Board::new
Board_new == [l \in Locations |-> None]

\* Board::action without `self[move_action.from] = None`
Board_action_keep_source(b, a) == [b EXCEPT ![a.to] = b[a.from]]

\* Board::action
Board_action(b, a) == [[b EXCEPT ![a.to] = b[a.from]] EXCEPT ![a.from] = None]

MoveAction(from, to) == [to |-> to, from |-> from]

\* switch_active_side
Other(side) == IF side = "White" THEN "Black" ELSE "White"

---------------------------------------------------------------------------
(* engine/move_generator/base.rs                                           *)

\* PieceMovementType: Relocate(l), Capture(l), Promotion(l), Castle(k, r)
Relocate(l) == <<"Relocate", l>>
Capture(l) == <<"Capture", l>>
Promotion(l) == <<"Promotion", l>>
Castle(king_target, rook_target) == <<"Castle", king_target, rook_target>>

\* location with the Capture arm missing from the match
location_without_capture(mv) == IF mv[1] \in {"Castle", "Capture"} THEN {} ELSE {mv[2]}

\* PieceMovementType::location: None for Castle
location(mv) == IF mv[1] = "Castle" THEN {} ELSE {mv[2]}

\* variant: the walk does not stop at a piece of the moving side
RECURSIVE ray_through_own_pieces(_, _, _, _, _)
ray_through_own_pieces(b, loc, side, dx, dy) ==
    LET next == offset(loc, dy, dx) IN
    IF next = {} THEN {}
    ELSE LET next_loc == CHOOSE l \in next : TRUE IN
         IF b[next_loc] = None
         THEN {Relocate(next_loc)}
                  \cup ray_through_own_pieces(b, next_loc, side, dx, dy)
         ELSE IF b[next_loc].side # side
         THEN {Capture(next_loc)}
         ELSE ray_through_own_pieces(b, next_loc, side, dx, dy)

RECURSIVE generate_moves_in_direction(_, _, _, _, _)
generate_moves_in_direction(b, loc, side, dx, dy) ==
    LET next == offset(loc, dy, dx) IN
    IF next = {} THEN {}
    ELSE LET next_loc == CHOOSE l \in next : TRUE IN
         IF b[next_loc] = None
         THEN {Relocate(next_loc)}
                  \cup generate_moves_in_direction(b, next_loc, side, dx, dy)
         ELSE IF b[next_loc].side # side
         THEN {Capture(next_loc)}
         ELSE {}

generate_sliding_moves(b, loc, side, directions) ==
    UNION { generate_moves_in_direction(b, loc, side, d[1], d[2]) : d \in directions }

---------------------------------------------------------------------------
(* engine/move_generator/{rock,bishop,queen,knight}.rs                     *)

ROCK_POSSIBLE_DIRECTIONS == {<<0, 1>>, <<0, -1>>, <<1, 0>>, <<-1, 0>>}
BISHOP_POSSIBLE_DIRECTIONS == {<<1, 1>>, <<-1, -1>>, <<1, -1>>, <<-1, 1>>}
QUEEN_POSSIBLE_DIRECTIONS ==
    {<<0, 1>>, <<0, -1>>, <<1, 0>>, <<-1, 0>>,
     <<1, 1>>, <<-1, -1>>, <<1, -1>>, <<-1, 1>>}
KNIGHT_POSSIBLE_MOVES ==
    {<<2, 1>>, <<2, -1>>, <<-2, 1>>, <<-2, -1>>,
     <<1, 2>>, <<1, -2>>, <<-1, 2>>, <<-1, -2>>}
KING_POSSIBLE_DIRECTIONS ==
    {<<0, 1>>, <<0, -1>>, <<1, 0>>, <<-1, 0>>,
     <<1, 1>>, <<1, -1>>, <<-1, 1>>, <<-1, -1>>}

RookMoveGen_generate_moves(b, loc, side) ==
    generate_sliding_moves(b, loc, side, ROCK_POSSIBLE_DIRECTIONS)

BishopMoveGen_generate_moves(b, loc, side) ==
    generate_sliding_moves(b, loc, side, BISHOP_POSSIBLE_DIRECTIONS)

QueenMoveGen_generate_moves(b, loc, side) ==
    generate_sliding_moves(b, loc, side, QUEEN_POSSIBLE_DIRECTIONS)

\* variant: a target holding a piece of the moving side is captured too
step_moves_onto_own(b, loc, side, deltas) ==
    UNION { { IF b[t] = None THEN Relocate(t) ELSE Capture(t) :
                t \in offset(loc, d[2], d[1]) } : d \in deltas }

\* the match on board[target_loc] shared by the knight and king generators
step_moves(b, loc, side, deltas) ==
    UNION { { IF b[t] = None THEN Relocate(t) ELSE Capture(t) :
                t \in { l \in offset(loc, d[2], d[1]) :
                          b[l] = None \/ b[l].side # side } } : d \in deltas }

KnightMoveGen_generate_moves(b, loc, side) ==
    step_moves(b, loc, side, KNIGHT_POSSIBLE_MOVES)

---------------------------------------------------------------------------
(* engine/move_generator/pawn.rs                                           *)

get_start_rank(side) == IF side = "White" THEN 1 ELSE 6
get_promotion_rank(side) == IF side = "White" THEN 7 ELSE 0
get_move_direction(side) == IF side = "White" THEN 1 ELSE -1

\* variant: the target square is not required to be empty
check_valid_move_any_square(b, loc) == loc

check_valid_move(b, loc) == { l \in loc : b[l] = None }

\* variant: any occupied target square counts as a capture
check_valid_capture_any_side(b, loc, side) ==
    { l \in loc : b[l] # None }

check_valid_capture(b, loc, side) ==
    { l \in loc : b[l] # None /\ b[l].side # side }

\* variant: only the forward step is retagged
retag_promotion_forward_only(mv, promotion_rank) ==
    IF mv[1] = "Relocate" /\ RankOf(mv[2]) = promotion_rank
    THEN Promotion(mv[2])
    ELSE mv

\* the trailing iter_mut pass: Relocate / Capture on the promotion rank
\* becomes Promotion
retag_promotion(mv, promotion_rank) ==
    IF mv[1] \in {"Relocate", "Capture"} /\ RankOf(mv[2]) = promotion_rank
    THEN Promotion(mv[2])
    ELSE mv

PawnMoveGen_generate_moves(b, loc, side) ==
    LET direction == get_move_direction(side)
        promotion_rank == get_promotion_rank(side)
        is_in_start_rank == RankOf(loc) = get_start_rank(side)
        single_step_loc == offset(loc, direction, 0)
        double_step_loc == offset(loc, 2 * direction, 0)
        single == check_valid_move(b, single_step_loc)
        double == IF single # {} /\ is_in_start_rank
                     /\ \A s \in single : b[s] = None
                  THEN check_valid_move(b, double_step_loc)
                  ELSE {}
        captures == UNION { check_valid_capture(b, offset(loc, direction, dx), side) :
                              dx \in {-1, 1} }
        moves == { Relocate(l) : l \in single \cup double }
                     \cup { Capture(l) : l \in captures }
    IN { retag_promotion(mv, promotion_rank) : mv \in moves }

---------------------------------------------------------------------------
(* engine/move_generator/king.rs                                           *)

\* variant: the rook's has_moved flag is not looked at
king_side_castling_any_rook(b, loc) ==
    LET piece == b[loc]
        rank == RankOf(loc)
        rook == b[Location(7, rank)] IN
    IF /\ piece.piece_type = "King" /\ piece.has_moved = FALSE
       /\ rook.piece_type = "Rook"
       /\ b[Location(5, rank)] = None
       /\ b[Location(6, rank)] = None
    THEN {Castle(Location(6, rank), Location(5, rank))}
    ELSE {}

\* The rook pattern Some(Piece{piece_type: Rook, side, has_moved: false})
\* binds a fresh `side`: it matches a rook of either side.
king_side_castling(b, loc) ==
    LET piece == b[loc]
        rank == RankOf(loc)
        rook == b[Location(7, rank)] IN
    IF /\ piece.piece_type = "King" /\ piece.has_moved = FALSE
       /\ rook.piece_type = "Rook" /\ rook.has_moved = FALSE
       /\ b[Location(5, rank)] = None
       /\ b[Location(6, rank)] = None
    THEN {Castle(Location(6, rank), Location(5, rank))}
    ELSE {}

queen_side_castling(b, loc) ==
    LET piece == b[loc]
        rank == RankOf(loc)
        rook == b[Location(0, rank)] IN
    IF /\ piece.piece_type = "King" /\ piece.has_moved = FALSE
       /\ rook.piece_type = "Rook" /\ rook.has_moved = FALSE
       /\ b[Location(1, rank)] = None
       /\ b[Location(2, rank)] = None
       /\ b[Location(3, rank)] = None
    THEN {Castle(Location(2, rank), Location(3, rank))}
    ELSE {}

KingMoveGen_generate_moves(b, loc, side) ==
    step_moves(b, loc, side, KING_POSSIBLE_DIRECTIONS)
        \cup king_side_castling(b, loc)
        \cup queen_side_castling(b, loc)

\* engine/game/mod.rs: get_move_generator(piece_type)(board, loc, side)
get_move_generator(piece_type, b, loc, side) ==
    CASE piece_type = "Pawn" -> PawnMoveGen_generate_moves(b, loc, side)
      [] piece_type = "Rook" -> RookMoveGen_generate_moves(b, loc, side)
      [] piece_type = "Knight" -> KnightMoveGen_generate_moves(b, loc, side)
      [] piece_type = "Bishop" -> BishopMoveGen_generate_moves(b, loc, side)
      [] piece_type = "Queen" -> QueenMoveGen_generate_moves(b, loc, side)
      [] piece_type = "King" -> KingMoveGen_generate_moves(b, loc, side)

\* variant: without the guard `if let Some(piece) = board[*k_loc]`
get_checked_pieces_location_any_square(k_loc, b) ==
    UNION { { mv[2] : mv \in { m \in get_move_generator(piece_type, b, k_loc, b[k_loc].side) :
                                 m[1] = "Capture" /\ b[m[2]].piece_type = piece_type } } :
            piece_type \in PieceTypes }

\* KingMoveGen::get_checked_pieces_location
get_checked_pieces_location(k_loc, b) ==
    IF b[k_loc] = None THEN {}
    ELSE UNION { { mv[2] : mv \in { m \in get_move_generator(piece_type, b, k_loc, b[k_loc].side) :
                                      m[1] = "Capture" /\ b[m[2]].piece_type = piece_type } } :
                 piece_type \in PieceTypes }

\* KingMoveGen::is_checked
is_checked(k_loc, b) == get_checked_pieces_location(k_loc, b) # {}

---------------------------------------------------------------------------
(* engine/game/base.rs: Game                                               *)

E1 == Location(4, 0)
E8 == Location(4, 7)

\* king_pos of Game::new and reset_board
initial_king_pos == [s \in Sides |-> IF s = "White" THEN E1 ELSE E8]

back_rank_types == <<"Rook", "Knight", "Bishop", "Queen", "King", "Bishop", "Knight", "Rook">>

\* variant: the back rank is laid out from the h file, which swaps king and queen
get_location_by_side_mirrored(side) ==
    LET pieces_rank == IF side = "White" THEN 0 ELSE 7
        pawn_rank == IF side = "White" THEN 1 ELSE 6 IN
    { <<Location(f, pieces_rank), Piece(back_rank_types[8 - f], side)>> : f \in Files }
        \cup { <<Location(f, pawn_rank), Piece("Pawn", side)>> : f \in Files }

\* get_location_by_side: the 16 (Location, Piece) pairs of one side
get_location_by_side(side) ==
    LET pieces_rank == IF side = "White" THEN 0 ELSE 7
        pawn_rank == IF side = "White" THEN 1 ELSE 6 IN
    { <<Location(f, pieces_rank), Piece(back_rank_types[f + 1], side)>> : f \in Files }
        \cup { <<Location(f, pawn_rank), Piece("Pawn", side)>> : f \in Files }

\* reset_board: Board::new, then every WHITE_PIECES / BLACK_PIECES entry
reset_board ==
    LET placed == get_location_by_side("White") \cup get_location_by_side("Black") IN
    [l \in Locations |->
        IF \E e \in placed : e[1] = l
        THEN (CHOOSE e \in placed : e[1] = l)[2]
        ELSE None]

\* get_moves_by_type: the locations of the generated moves (Castle has none)
get_moves_by_type(b, p_type, loc, side) ==
    UNION { location(mv) : mv \in get_move_generator(p_type, b, loc, side) }

\* validate_move without the guard `piece.side == self.active`
validate_move_any_side(b, act, a) ==
    /\ b[a.from] # None
    /\ a.to \in get_moves_by_type(b, b[a.from].piece_type, a.from, b[a.from].side)

\* variant: validate_move without the destination test
validate_move_any_target(b, act, a) ==
    /\ b[a.from] # None
    /\ b[a.from].side = act

\* validate_move
validate_move(b, act, a) ==
    /\ b[a.from] # None
    /\ b[a.from].side = act
    /\ a.to \in get_moves_by_type(b, b[a.from].piece_type, a.from, b[a.from].side)

\* the king square the check test looks at (try_move lines 236-244)
moving_king_loc(b, act, kp, a) ==
    IF b[a.from].piece_type = "King" THEN a.to ELSE kp[act]

\* rollback without `self.board[action.to] = to_state`
rollback_without_target(moved, a, from_state, to_state) ==
    [moved EXCEPT ![a.from] = from_state]

\* rollback without `self.board[action.from] = from_state`
rollback_without_source(moved, a, from_state, to_state) ==
    [moved EXCEPT ![a.to] = to_state]

\* the rollback of try_move (lines 247-248) and check_is_check_and_rollback
rollback(moved, a, from_state, to_state) ==
    [[moved EXCEPT ![a.from] = from_state] EXCEPT ![a.to] = to_state]

\* the commit of try_move (lines 251-252): king_pos[active] = action.to
commit_king_pos(kp, act, a) == [kp EXCEPT ![act] = a.to]

\* try_move: the result and the game state it leaves
try_move(b, act, kp, a) ==
    LET king_loc == moving_king_loc(b, act, kp, a)
        from_state == b[a.from]
        to_state == b[a.to]
        moved == Board_action(b, a) IN
    IF is_checked(king_loc, moved)
    THEN [result |-> "Err",
          board |-> rollback(moved, a, from_state, to_state),
          active |-> act,
          king_pos |-> kp]
    ELSE [result |-> "Ok",
          board |-> moved,
          active |-> Other(act),
          king_pos |-> commit_king_pos(kp, act, a)]

\* variant: the simulated move is left on the board
check_is_check_without_rollback(b, act, kp, a) ==
    LET king_loc == moving_king_loc(b, act, kp, a)
        moved == Board_action(b, a) IN
    [is_checked |-> is_checked(king_loc, moved),
     board |-> moved]

\* check_is_check_and_rollback: the flag and the board it leaves
check_is_check_and_rollback(b, act, kp, a) ==
    LET king_loc == moving_king_loc(b, act, kp, a)
        moved == Board_action(b, a) IN
    [is_checked |-> is_checked(king_loc, moved),
     board |-> rollback(moved, a, b[a.from], b[a.to])]

\* is_checkmate: the MoveActions collected for the active side's pieces
my_piece_legal_moves_location(b, act) ==
    UNION { { MoveAction(l, t) : t \in get_moves_by_type(b, b[l].piece_type, l, act) } :
              l \in { x \in Locations : b[x] # None /\ b[x].side = act } }

\* variant: one simulated move that leaves the king in check is enough
is_checkmate_some_move(b, act, kp) ==
    \E a \in my_piece_legal_moves_location(b, act) :
        check_is_check_and_rollback(b, act, kp, a).is_checked

is_checkmate(b, act, kp) ==
    \A a \in my_piece_legal_moves_location(b, act) :
        check_is_check_and_rollback(b, act, kp, a).is_checked

\* is_checkmate, the loop over the collected actions: the board it leaves.
\* The actions are collected before the loop; each call hands its board to
\* the next one and the loop returns at the first move that is not in check.
RECURSIVE simulate_each(_, _, _, _)
simulate_each(b, act, kp, actions) ==
    IF actions = {} THEN [result |-> TRUE, board |-> b]
    ELSE LET a == CHOOSE x \in actions : TRUE
             r == check_is_check_and_rollback(b, act, kp, a) IN
         IF ~r.is_checked THEN [result |-> FALSE, board |-> r.board]
         ELSE simulate_each(r.board, act, kp, actions \ {a})

\* is_checkmate as it runs: the value returned and the board left
is_checkmate_run(b, act, kp) ==
    simulate_each(b, act, kp, my_piece_legal_moves_location(b, act))

---------------------------------------------------------------------------
(* Game::start: the game loop                                              *)

NoArg == MoveAction(E1, E1)

\* squares the input source may name
InputSquares == { l \in Locations : FileOf(l) >= 8 - MaxInputFiles }

\* Game::new
Init ==
    /\ board = Board_new
    /\ active = "White"
    /\ king_pos = initial_king_pos
    /\ pc = "new"
    /\ n = 0
    /\ op = "new"
    /\ arg = NoArg
    /\ result = "none"
    /\ gui = <<>>
    /\ before = <<>>

\* start, up to the first loop test: reset_board and the first render
Start ==
    /\ pc = "new"
    /\ board' = reset_board
    /\ king_pos' = initial_king_pos
    /\ pc' = "check"
    /\ op' = "reset_board"
    /\ gui' = <<"render">>
    /\ UNCHANGED <<active, n, arg, result, before>>

\* variant: the loop never ends
loop_continues_always(checkmate) == TRUE

\* the loop condition: while !self.is_checkmate()
loop_continues(checkmate) == ~checkmate

\* the loop test; is_checkmate leaves the board of its last rollback
LoopTest ==
    /\ pc = "check"
    /\ \E r \in {is_checkmate_run(board, active, king_pos)} :
       /\ pc' = IF loop_continues(r.result) THEN "wait" ELSE "done"
       /\ board' = r.board
    /\ op' = "is_checkmate"
    /\ result' = "none"
    /\ gui' = <<>>
    /\ UNCHANGED <<active, king_pos, n, arg, before>>

\* variant: a ShowMoveOption query is never rendered
show_move_option_gui_never(b, x) == <<"wait_and_process_event">>

\* Action::ShowMoveOption(x): the GUI calls of the iteration
show_move_option_gui(b, x) ==
    IF b[x] # None THEN <<"wait_and_process_event", "render">>
    ELSE <<"wait_and_process_event">>

\* Action::ShowMoveOption(x)
ShowMoveOption(x) ==
    /\ pc = "wait"
    /\ pc' = "check"
    /\ op' = "ShowMoveOption"
    /\ result' = IF board[x] # None THEN "Shown" ELSE "none"
    /\ gui' = show_move_option_gui(board, x)
    /\ UNCHANGED <<board, active, king_pos, n, arg, before>>

\* Action::Move(move_action): the GUI calls of the iteration
move_gui(b, act, a) ==
    IF validate_move(b, act, a) THEN <<"wait_and_process_event", "render">>
    ELSE <<"wait_and_process_event">>

\* Action::Move(move_action) if self.validate_move(&move_action), while
\* fewer than limit moves have been committed
MoveWithin(a, limit) ==
    /\ pc = "wait"
    /\ n < limit
    /\ validate_move(board, active, a)
    /\ LET r == try_move(board, active, king_pos, a) IN
       /\ board' = r.board
       /\ active' = r.active
       /\ king_pos' = r.king_pos
       /\ result' = r.result
       /\ n' = IF r.result = "Ok" THEN n + 1 ELSE n
    /\ pc' = "check"
    /\ op' = "Move"
    /\ gui' = move_gui(board, active, a)
    /\ UNCHANGED <<arg, before>>

MoveGuarded(a) == MoveWithin(a, MaxMoves)

\* Action::Move(move_action), the fallback arm: only a message is printed
MoveFallback ==
    /\ pc = "wait"
    /\ ~(\A f \in InputSquares, t \in InputSquares :
             validate_move(board, active, MoveAction(f, t)))
    /\ pc' = "check"
    /\ op' = "Move"
    /\ result' = "Invalid"
    /\ gui' = <<"wait_and_process_event">>
    /\ UNCHANGED <<board, active, king_pos, n, arg, before>>

Next ==
    \/ Start
    \/ LoopTest
    \/ \E x \in InputSquares : ShowMoveOption(x)
    \/ \E f \in InputSquares, t \in InputSquares : MoveGuarded(MoveAction(f, t))
    \/ MoveFallback

Spec == Init /\ [][Next]_vars

\* squares named by the input source that sends Move actions only: the
\* d, e, f and h files, without the fourth and the sixth rank
MovesSquares == { l \in Locations : FileOf(l) \in {3, 4, 5, 7} /\ RankOf(l) \notin {3, 5} }

\* the game loop driven by an input source that sends Move actions only
MovesNext ==
    \/ Start
    \/ LoopTest
    \/ \E f \in MovesSquares, t \in MovesSquares : MoveWithin(MoveAction(f, t), MaxPlies)

SpecMoves == Init /\ [][MovesNext]_vars

---------------------------------------------------------------------------
(* Test harness of engine/game/base.rs (mod tests): a position is set up   *)
(* on the empty board of Game::new by assigning squares, king_pos[White]   *)
(* and active, and the private methods are called on it directly.          *)

place(b, l, p) == [b EXCEPT ![l] = p]

\* the window at the a1 corner
LowWindow == { Location(f, r) : f \in 0..(Window - 1), r \in 0..(Window - 1) }
\* the window at the h8 corner
HighWindow == { Location(f, r) : f \in (8 - Window)..7, r \in (8 - Window)..7 }

UnitBlackTypes == {"Rook", "Bishop", "Knight", "Queen"}

\* White king on the first rank, optionally a white rook, and one black piece
UnitBoards ==
    { place(place(place(Board_new, wk, Piece("King", "White")), wl, wp), bl, bp) :
        wk \in { l \in LowWindow : RankOf(l) = 0 },
        wl \in LowWindow, wp \in {None, Piece("Rook", "White")},
        bl \in LowWindow, bp \in { Piece(t, "Black") : t \in UnitBlackTypes } }

UnitInit ==
    /\ board \in UnitBoards
    /\ Cardinality({ l \in Locations : board[l] = Piece("King", "White") }) = 1
    /\ Cardinality({ l \in Locations : board[l] # None /\ board[l].side = "Black" }) = 1
    /\ active = "White"
    /\ king_pos = [initial_king_pos EXCEPT
                     !["White"] = CHOOSE l \in Locations : board[l] = Piece("King", "White")]
    /\ pc = "unit"
    /\ n = 0
    /\ op = "new"
    /\ arg = NoArg
    /\ result = "none"
    /\ gui = <<>>
    /\ before = <<>>

\* game.try_move(&action)
CallTryMove(a) ==
    /\ pc = "unit"
    /\ n < MaxCalls
    /\ LET r == try_move(board, active, king_pos, a) IN
       /\ board' = r.board
       /\ active' = r.active
       /\ king_pos' = r.king_pos
       /\ result' = r.result
    /\ op' = "try_move"
    /\ arg' = a
    /\ n' = n + 1
    /\ before' = game_state(board, active, king_pos)
    /\ UNCHANGED <<pc, gui>>

\* game.validate_move(&action)
CallValidateMove(a) ==
    /\ pc = "unit"
    /\ n < MaxCalls
    /\ result' = IF validate_move(board, active, a) THEN "true" ELSE "false"
    /\ op' = "validate_move"
    /\ arg' = a
    /\ n' = n + 1
    /\ before' = game_state(board, active, king_pos)
    /\ UNCHANGED <<board, active, king_pos, pc, gui>>

\* the Move arms of Game::start applied to the position
CallMove(a) ==
    /\ pc = "unit"
    /\ n < MaxCalls
    /\ IF validate_move(board, active, a)
       THEN LET r == try_move(board, active, king_pos, a) IN
            /\ board' = r.board
            /\ active' = r.active
            /\ king_pos' = r.king_pos
            /\ result' = r.result
       ELSE /\ result' = "Invalid"
            /\ UNCHANGED <<board, active, king_pos>>
    /\ op' = "Move"
    /\ arg' = a
    /\ n' = n + 1
    /\ gui' = move_gui(board, active, a)
    /\ before' = game_state(board, active, king_pos)
    /\ UNCHANGED pc

\* the ShowMoveOption arm of Game::start applied to the position
CallShowMoveOption(x) ==
    /\ pc = "unit"
    /\ n < MaxCalls
    /\ result' = IF board[x] # None THEN "Shown" ELSE "none"
    /\ op' = "ShowMoveOption"
    /\ arg' = MoveAction(x, x)
    /\ n' = n + 1
    /\ gui' = show_move_option_gui(board, x)
    /\ before' = game_state(board, active, king_pos)
    /\ UNCHANGED <<board, active, king_pos, pc>>

UnitNext ==
    \/ \E x \in LowWindow : CallShowMoveOption(x)
    \/ \E f \in LowWindow, t \in LowWindow : CallTryMove(MoveAction(f, t))
    \/ \E f \in LowWindow, t \in LowWindow : CallValidateMove(MoveAction(f, t))
    \/ \E f \in LowWindow, t \in LowWindow : CallMove(MoveAction(f, t))

SpecUnit == UnitInit /\ [][UnitNext]_vars

---------------------------------------------------------------------------
(* Test harness of engine/move_generator (mod tests): a board is set up    *)
(* with the piece under test and a few other pieces, and a generator or    *)
(* the check detector is called on the square of the piece under test.     *)

RECURSIVE place_all(_, _)
place_all(b, ps) ==
    IF ps = {} THEN b
    ELSE LET e == CHOOSE x \in ps : TRUE IN
         place_all(place(b, e[1], e[2]), ps \ {e})

\* kinds of the other pieces: an enemy slider, stepper and pawn, and a pawn
\* of the own side
other_kinds(side) ==
    { Piece(t, Other(side)) : t \in {"Rook", "Knight", "Pawn"} } \cup { Piece("Pawn", side) }

\* sets of at most MaxOthers placements on distinct squares of w other than l
RECURSIVE others_sets(_, _, _)
others_sets(w, side, k) ==
    IF k = 0 THEN {{}}
    ELSE LET smaller == others_sets(w, side, k - 1) IN
         smaller \cup
         { s \cup {<<l, p>>} :
             s \in { x \in smaller : Cardinality(x) = k - 1 },
             l \in w, p \in other_kinds(side) }

GenInit ==
    /\ \E w \in {LowWindow, HighWindow} :
       \E l \in w, t \in PieceTypes, s \in Sides :
       \E o \in others_sets(w \ {l}, s, MaxOthers) :
          /\ Cardinality({ e[1] : e \in o }) = Cardinality(o)
          /\ board = place(place_all(Board_new, o), l, Piece(t, s))
          /\ arg = MoveAction(l, l)
    /\ active = "White"
    /\ king_pos = initial_king_pos
    /\ pc = "gen"
    /\ n = 0
    /\ op = "new"
    /\ result = "none"
    /\ gui = <<>>
    /\ before = <<>>

\* get_move_generator(piece_type)(&board, loc, side) for the piece under test
CallGenerateMoves ==
    /\ pc = "gen"
    /\ n < MaxCalls
    /\ LET l == arg.from IN
       result' = get_move_generator(board[l].piece_type, board, l, board[l].side)
    /\ op' = "generate_moves"
    /\ n' = n + 1
    /\ UNCHANGED <<board, active, king_pos, pc, arg, gui, before>>

\* KingMoveGen::is_checked(&loc, &board) for the piece under test
CallIsChecked ==
    /\ pc = "gen"
    /\ n < MaxCalls
    /\ result' = is_checked(arg.from, board)
    /\ op' = "is_checked"
    /\ n' = n + 1
    /\ UNCHANGED <<board, active, king_pos, pc, arg, gui, before>>

GenNext ==
    \/ CallGenerateMoves
    \/ CallIsChecked

SpecGen == GenInit /\ [][GenNext]_vars

---------------------------------------------------------------------------
(* Test harness of engine/move_generator/pawn.rs (mod tests): a pawn on    *)
(* any square, with the two squares ahead of it and its two forward        *)
(* diagonal squares each empty or occupied, and the generator called on it. *)

\* the squares ahead of a pawn that its generator reads
pawn_front_squares(l, side) ==
    UNION { offset(l, d[1] * get_move_direction(side), d[2]) :
              d \in {<<1, 0>>, <<2, 0>>, <<1, -1>>, <<1, 1>>} }

\* what a test puts on such a square
pawn_front_kinds(side) ==
    {None, Piece("Pawn", side), Piece("Knight", Other(side))}

PawnInit ==
    /\ \E l \in Locations, s \in Sides :
       \E g \in [pawn_front_squares(l, s) -> pawn_front_kinds(s)] :
          /\ board = [x \in Locations |->
                        IF x = l THEN Piece("Pawn", s)
                        ELSE IF x \in pawn_front_squares(l, s) THEN g[x]
                        ELSE None]
          /\ arg = MoveAction(l, l)
    /\ active = "White"
    /\ king_pos = initial_king_pos
    /\ pc = "gen"
    /\ n = 0
    /\ op = "new"
    /\ result = "none"
    /\ gui = <<>>
    /\ before = <<>>

PawnNext == CallGenerateMoves

SpecPawn == PawnInit /\ [][PawnNext]_vars

---------------------------------------------------------------------------
(* Test harness of the castling moves (engine/move_generator/king.rs, mod  *)
(* tests): a king on the e-file of a back rank, the two corner squares of  *)
(* that rank empty or holding a rook, the squares between empty or         *)
(* blocked; pieces are built with Piece::new or as a struct literal with   *)
(* has_moved: true.                                                        *)

\* Piece { piece_type, side, has_moved: true }
MovedPiece(piece_type, side) ==
    [piece_type |-> piece_type, side |-> side, has_moved |-> TRUE]

castle_corner_kinds ==
    {None} \cup { Piece("Rook", s) : s \in Sides } \cup { MovedPiece("Rook", s) : s \in Sides }

castle_between_kinds(side) == {None, Piece("Bishop", side)}

castle_king_squares == {E1, E8}

\* the corner squares and the squares between them and the king
castle_corners(k) == { Location(f, RankOf(k)) : f \in {0, 7} }
castle_between(k) == { Location(f, RankOf(k)) : f \in {1, 2, 3, 5, 6} }

castle_board(k, king, c, g) ==
    [x \in Locations |->
        IF x = k THEN king
        ELSE IF x \in castle_corners(k) THEN c[FileOf(x)]
        ELSE IF x \in castle_between(k) THEN g[FileOf(x)]
        ELSE None]

\* the board is a castling board: blockers are pieces of the king's side
CastleBoards ==
    \E s \in Sides, k \in castle_king_squares :
    \E king \in {Piece("King", s), MovedPiece("King", s)},
       c \in [{0, 7} -> castle_corner_kinds],
       g \in [{1, 2, 3, 5, 6} -> castle_between_kinds(s)] :
       board = castle_board(k, king, c, g)

\* the king square of a castling board
castle_king(b) == CHOOSE k \in castle_king_squares : b[k].piece_type = "King"

\* the generator is called on the king
CastleGenInit ==
    /\ CastleBoards
    /\ arg = MoveAction(castle_king(board), castle_king(board))
    /\ active = "White"
    /\ king_pos = initial_king_pos
    /\ pc = "gen"
    /\ n = 0
    /\ op = "new"
    /\ result = "none"
    /\ gui = <<>>
    /\ before = <<>>

CastleGenNext == CallGenerateMoves

SpecCastleGen == CastleGenInit /\ [][CastleGenNext]_vars

\* the king's side is to move and a move of the king along its rank is played
CastleMoveInit ==
    /\ CastleBoards
    /\ active = board[castle_king(board)].side
    /\ king_pos = [initial_king_pos EXCEPT ![active] = castle_king(board)]
    /\ pc = "unit"
    /\ n = 0
    /\ op = "new"
    /\ arg = NoArg
    /\ result = "none"
    /\ gui = <<>>
    /\ before = <<>>

CastleMoveNext ==
    \/ \E f \in castle_king_squares, t \in Locations :
          /\ board[f].piece_type = "King"
          /\ RankOf(t) = RankOf(f)
          /\ CallTryMove(MoveAction(f, t))
    \/ \E f \in castle_king_squares, t \in Locations :
          /\ board[f].piece_type = "King"
          /\ RankOf(t) = RankOf(f)
          /\ CallMove(MoveAction(f, t))

SpecCastleMove == CastleMoveInit /\ [][CastleMoveNext]_vars

---------------------------------------------------------------------------
(* Test harness of Game::is_checkmate (engine/game/base.rs, mod tests): a  *)
(* White king near the a1 corner with king_pos[White] set to its square,   *)
(* optionally a White rook, and at most two Black rooks or queens; White   *)
(* is to move and is_checkmate or the check detector is called.            *)

A1 == Location(0, 0)
A8 == Location(0, 7)
B8 == Location(1, 7)
H2 == Location(7, 1)

\* squares a Black piece is placed on
mate_black_squares == LowWindow \cup {A8, B8, H2}

mate_black_kinds == {Piece("Rook", "Black"), Piece("Queen", "Black")}

\* at most two placements of Black pieces on distinct squares
mate_black_sets ==
    {{}} \cup { {<<l, p>>} : l \in mate_black_squares, p \in mate_black_kinds }
         \cup { {<<e[1], p>>, <<e[2], q>>} :
                  e \in { x \in mate_black_squares \X mate_black_squares : x[1] < x[2] },
                  p \in mate_black_kinds, q \in mate_black_kinds }

MateInit ==
    /\ \E k \in { l \in LowWindow : RankOf(l) = 0 },
          wl \in LowWindow, wp \in {None, Piece("Rook", "White")},
          bs \in mate_black_sets :
          /\ wl # k
          /\ \A e \in bs : e[1] # k /\ (wp # None => e[1] # wl)
          /\ board = place(place(place_all(Board_new, bs), wl, wp), k, Piece("King", "White"))
          /\ king_pos = [initial_king_pos EXCEPT !["White"] = k]
          /\ arg = MoveAction(k, k)
    /\ active = "White"
    /\ pc = "mate"
    /\ n = 0
    /\ op = "new"
    /\ result = "none"
    /\ gui = <<>>
    /\ before = <<>>

\* game.is_checkmate()
CallIsCheckmate ==
    /\ pc = "mate"
    /\ n < MaxCalls
    /\ result' = is_checkmate(board, active, king_pos)
    /\ board' = is_checkmate_run(board, active, king_pos).board
    /\ op' = "is_checkmate"
    /\ n' = n + 1
    /\ before' = game_state(board, active, king_pos)
    /\ UNCHANGED <<active, king_pos, pc, arg, gui>>

\* KingMoveGen::is_checked(&king_pos[active], &board)
CallKingIsChecked ==
    /\ pc = "mate"
    /\ n < MaxCalls
    /\ result' = is_checked(king_pos[active], board)
    /\ op' = "is_checked"
    /\ arg' = MoveAction(king_pos[active], king_pos[active])
    /\ n' = n + 1
    /\ UNCHANGED <<board, active, king_pos, pc, gui, before>>

\* KingMoveGen::get_checked_pieces_location(&loc, &board)
CallGetCheckedPiecesLocation(x) ==
    /\ pc = "mate"
    /\ n < MaxCalls
    /\ result' = get_checked_pieces_location(x, board)
    /\ op' = "get_checked_pieces_location"
    /\ arg' = MoveAction(x, x)
    /\ n' = n + 1
    /\ UNCHANGED <<board, active, king_pos, pc, gui, before>>

MateNext ==
    \/ \E x \in LowWindow : CallGetCheckedPiecesLocation(x)
    \/ CallIsCheckmate
    \/ CallKingIsChecked

SpecMate == MateInit /\ [][MateNext]_vars

---------------------------------------------------------------------------
(* Location::offset called directly, over the whole width of its i8        *)
(* arguments.                                                              *)

\* i8::MAX, the type of the offsets and of the sums in Location::offset
I8Max == 127
I8Min == -I8Max - 1

\* `index as i8 + offset`: the sum when it fits an i8; an overflowing sum
\* panics in a build with overflow checks and wraps in a build without
add_i8(a, b) ==
    IF a + b > I8Max \/ a + b < I8Min
    THEN { [panic |-> TRUE, value |-> 0],
           [panic |-> FALSE, value |-> ((a + b - I8Min) % (I8Max - I8Min + 1)) + I8Min] }
    ELSE { [panic |-> FALSE, value |-> a + b] }

\* Location::offset as it runs: <<"Ok", {location}>>, <<"Err", {}>> or
\* <<"panic", {}>>; the rank is computed and tested before the file
offset_run(loc, rank_offset, file_offset) ==
    UNION { IF r.panic THEN { <<"panic", {}>> }
            ELSE IF from_repr(r.value) = {} THEN { <<"Err", {}>> }
            ELSE UNION { IF f.panic THEN { <<"panic", {}>> }
                         ELSE IF from_repr(f.value) = {} THEN { <<"Err", {}>> }
                         ELSE { <<"Ok", {Location(f.value, r.value)}>> } :
                         f \in add_i8(FileOf(loc), file_offset) } :
            r \in add_i8(RankOf(loc), rank_offset) }

\* offsets handed to the call: the small ones and both ends of i8
OffsetValues == (-MaxOffset..MaxOffset) \cup {I8Min} \cup ((I8Max - MaxOffset)..I8Max)

OffsetInit ==
    /\ board = Board_new
    /\ active = "White"
    /\ king_pos = initial_king_pos
    /\ pc = "offset"
    /\ n = 0
    /\ op = "new"
    /\ arg \in [from : Locations, rank_offset : OffsetValues, file_offset : OffsetValues]
    /\ result = "none"
    /\ gui = <<>>
    /\ before = <<>>

\* location.offset(rank_offset, file_offset)
CallOffset ==
    /\ pc = "offset"
    /\ n < MaxCalls
    /\ result' \in offset_run(arg.from, arg.rank_offset, arg.file_offset)
    /\ op' = "offset"
    /\ n' = n + 1
    /\ UNCHANGED <<board, active, king_pos, pc, arg, gui, before>>

OffsetNext == CallOffset

SpecOffset == OffsetInit /\ [][OffsetNext]_vars

---------------------------------------------------------------------------
(* Location::from called on texts; a char is modelled by its code point.   *)

\* char::to_ascii_lowercase: 'A'..'Z' (65..90) become 'a'..'z'
to_ascii_lowercase(c) == IF c \in 65..90 THEN c + 32 ELSE c

\* `c as u8`: the low eight bits of the code point
as_u8(c) == c % 256

\* File::from_char: checked_sub(b'a') (97), then File::from_repr
File_from_char(c) ==
    LET v == as_u8(to_ascii_lowercase(c)) IN
    IF v < 97 THEN {} ELSE from_repr(v - 97)

\* char::to_digit(10): Some for '0'..'9' (48..57)
to_digit(c) == IF c \in 48..57 THEN {c - 48} ELSE {}

\* Rank::from_char: to_digit(10).unwrap(), `as usize - 1`, Rank::from_repr.
\* For '0' the subtraction overflows: a panic in a build with overflow
\* checks, usize::MAX (no discriminant) in a build without.
Rank_from_char(c) ==
    IF to_digit(c) = {} THEN { [panic |-> TRUE, value |-> {}] }
    ELSE UNION { IF d = 0 THEN { [panic |-> TRUE, value |-> {}],
                                 [panic |-> FALSE, value |-> {}] }
                 ELSE { [panic |-> FALSE, value |-> from_repr(d - 1)] } :
                 d \in to_digit(c) }

\* Location::from: <<"Ok", {location}>>, <<"Err", {}>> or <<"panic", {}>>;
\* the slice pattern [first, second, ..] takes any text of two or more
\* chars and both conversions are unwrapped
Location_from(value) ==
    IF Len(value) < 2 THEN { <<"Err", {}>> }
    ELSE LET file == File_from_char(value[1]) IN
         IF file = {} THEN { <<"panic", {}>> }
         ELSE UNION { IF r.panic \/ r.value = {} THEN { <<"panic", {}>> }
                      ELSE { <<"Ok", {Location(f, rk)}>> : f \in file, rk \in r.value } :
                      r \in Rank_from_char(value[2]) }

\* code points the texts are drawn from:
\* - 0 1 8 9 @ A H I ` a h i and U+0161
ParseChars == {45, 48, 49, 56, 57, 64, 65, 72, 73, 96, 97, 104, 105, 353}

ParseTexts == UNION { [1..k -> ParseChars] : k \in 0..MaxText }

ParseInit ==
    /\ board = Board_new
    /\ active = "White"
    /\ king_pos = initial_king_pos
    /\ pc = "parse"
    /\ n = 0
    /\ op = "new"
    /\ arg \in ParseTexts
    /\ result = "none"
    /\ gui = <<>>
    /\ before = <<>>

\* Location::from(value)
CallLocationFrom ==
    /\ pc = "parse"
    /\ n < MaxCalls
    /\ result' \in Location_from(arg)
    /\ op' = "from"
    /\ n' = n + 1
    /\ UNCHANGED <<board, active, king_pos, pc, arg, gui, before>>

ParseNext == CallLocationFrom

SpecParse == ParseInit /\ [][ParseNext]_vars

---------------------------------------------------------------------------
(* Vocabulary of the properties: chess attack geometry stated per piece,   *)
(* independently of the generators.                                        *)

Abs(x) == IF x < 0 THEN -x ELSE x
Sgn(x) == IF x < 0 THEN -1 ELSE IF x > 0 THEN 1 ELSE 0

OnLine(a, k) == a # k /\ (FileOf(a) = FileOf(k) \/ RankOf(a) = RankOf(k))
OnDiagonal(a, k) == a # k /\ Abs(FileOf(a) - FileOf(k)) = Abs(RankOf(a) - RankOf(k))

Distance(a, k) ==
    IF Abs(FileOf(a) - FileOf(k)) > Abs(RankOf(a) - RankOf(k))
    THEN Abs(FileOf(a) - FileOf(k))
    ELSE Abs(RankOf(a) - RankOf(k))

\* the squares strictly between two squares of one line or diagonal
Between(a, k) ==
    { Location(FileOf(a) + i * Sgn(FileOf(k) - FileOf(a)),
               RankOf(a) + i * Sgn(RankOf(k) - RankOf(a))) : i \in 1..(Distance(a, k) - 1) }

ClearBetween(b, a, k) == \A l \in Between(a, k) : b[l] = None

\* the piece on a attacks square k under its own movement rules
Attacks(b, a, k) ==
    LET p == b[a]
        df == Abs(FileOf(a) - FileOf(k))
        dr == Abs(RankOf(a) - RankOf(k)) IN
    CASE p.piece_type = "Rook" -> OnLine(a, k) /\ ClearBetween(b, a, k)
      [] p.piece_type = "Bishop" -> OnDiagonal(a, k) /\ ClearBetween(b, a, k)
      [] p.piece_type = "Queen" ->
             (OnLine(a, k) \/ OnDiagonal(a, k)) /\ ClearBetween(b, a, k)
      [] p.piece_type = "Knight" -> (df = 1 /\ dr = 2) \/ (df = 2 /\ dr = 1)
      [] p.piece_type = "King" -> a # k /\ df <= 1 /\ dr <= 1
      [] p.piece_type = "Pawn" ->
             df = 1 /\ RankOf(k) = RankOf(a) + (IF p.side = "White" THEN 1 ELSE -1)
      [] OTHER -> FALSE

\* the enemy pieces attacking the piece on k
Attackers(b, k) ==
    { a \in Locations : b[a] # None /\ b[a].side # b[k].side /\ Attacks(b, a, k) }

\* the single-target destinations the generator of the piece on `from` produces
Destinations(b, from) ==
    { mv[2] : mv \in { m \in get_move_generator(b[from].piece_type, b, from, b[from].side) :
                         m[1] \in {"Relocate", "Capture", "Promotion"} } }

GameStateUnchanged == board' = board /\ king_pos' = king_pos /\ active' = active

\* the board and the active side at entry to the last harness call
BoardBefore == before[1]
ActiveBefore == before[2]

\* board, king_pos and active are what they were at entry to the last harness call
StateAsBefore == before = game_state(board, active, king_pos)

---------------------------------------------------------------------------
(* Properties.                                                             *)

\* C1: a try_move call that returns an error leaves every board square
\* (occupants and has_moved flags), king_pos of both sides and the active
\* side as they were before the call.
C1_RejectedMoveChangesNothing ==
    (op \in {"try_move", "Move"} /\ result = "Err") => StateAsBefore

\* C1 witness: a rejected try_move of a white piece standing on its square again
C1_Witness ==
    /\ op = "try_move" /\ result = "Err"
    /\ board[arg.from] # None /\ board[arg.from].side = "White"
    /\ arg.from # arg.to

\* C2: in the game played from the opening layout, the side that has just
\* moved never has its king attacked on the square where the king stands.
C2_MoverKingNotInCheck ==
    (pc # "new" /\ n > 0) =>
        \A l \in Locations :
            (board[l].piece_type = "King" /\ board[l].side = Other(active))
                => ~is_checked(l, board)

\* C3: after any sequence of try_move calls from the opening layout,
\* king_pos[s] is the square on which side s's king stands.
C3_KingPosAgreesWithBoard ==
    pc # "new" =>
        \A s \in Sides :
            board[king_pos[s]].piece_type = "King" /\ board[king_pos[s]].side = s

\* the rejection conditions of C4: empty source, piece of the inactive side,
\* or a target that is not a generated destination
NotValid(b, act, a) ==
    \/ b[a.from] = None
    \/ b[a.from].side # act
    \/ a.to \notin Destinations(b, a.from)

\* C4 as stated: try_move itself fails and changes nothing on an empty
\* source, a piece of the inactive side or a target that is not generated.
C4_TryMoveRejectsInvalid ==
    (op = "try_move" /\ NotValid(BoardBefore, ActiveBefore, arg))
        => (result = "Err" /\ StateAsBefore)

\* C4 amended: the Move arm of the game loop rejects such an action in
\* validate_move, without calling try_move, and changes nothing.
C4_MoveArmRejectsInvalid ==
    (op = "Move" /\ NotValid(BoardBefore, ActiveBefore, arg))
        => (result = "Invalid" /\ StateAsBefore)

\* C4 witness: the Move arm rejected a white piece's move to a square its
\* generator does not produce
C4_Witness ==
    /\ op = "Move" /\ result = "Invalid"
    /\ board[arg.from] # None /\ board[arg.from].side = "White"
    /\ active = "White"
    /\ arg.to \notin Destinations(board, arg.from)

\* C5: validate_move returns true exactly when the source holds a piece of
\* the active side and the target is a destination its generator produces,
\* and it never changes the game state.
C5_ValidateMoveExact ==
    op = "validate_move"
        => /\ (result = "true") <=> ~NotValid(BoardBefore, ActiveBefore, arg)
           /\ StateAsBefore

\* C5 witness: validate_move accepted a capture
C5_Witness ==
    /\ op = "validate_move" /\ result = "true"
    /\ board[arg.to] # None /\ board[arg.to].side # board[arg.from].side

C7_IsCheckedIffAttacked ==
    op = "is_checked" => (result = TRUE <=> Attackers(board, arg.from) # {})

\* C8: a king with an enemy rook on its file is reported checked when no
\* piece stands strictly between them, and not checked when some piece of
\* either side stands between them and nothing else attacks the king.
C8_RookOnFileBlockable ==
    (op = "is_checked" /\ board[arg.from].piece_type = "King") =>
        \A r \in Locations :
            ( /\ r # arg.from
              /\ FileOf(r) = FileOf(arg.from)
              /\ board[r].piece_type = "Rook"
              /\ board[r].side = Other(board[arg.from].side) )
            => /\ ClearBetween(board, r, arg.from) => result = TRUE
               /\ (~ClearBetween(board, r, arg.from) /\ Attackers(board, arg.from) = {})
                      => result = FALSE

\* C8 witness: a king, an enemy rook two squares up its file and a piece
\* interposed, reported as not checked
C8_Witness ==
    /\ op = "is_checked" /\ result = FALSE
    /\ board[arg.from].piece_type = "King"
    /\ \E r \in Locations :
          /\ FileOf(r) = FileOf(arg.from) /\ Distance(r, arg.from) = 2
          /\ board[r].piece_type = "Rook"
          /\ board[r].side = Other(board[arg.from].side)
          /\ ~ClearBetween(board, r, arg.from)

\* ray geometry stated on file and rank coordinates
OnBoard(f, r) == f \in 0..7 /\ r \in 0..7
RayDirs(piece_type) ==
    { d \in {-1, 0, 1} \X {-1, 0, 1} :
        /\ d # <<0, 0>>
        /\ piece_type = "Rook" => (d[1] = 0 \/ d[2] = 0)
        /\ piece_type = "Bishop" => (d[1] # 0 /\ d[2] # 0) }
RaySteps(l, d) ==
    { i \in 1..7 : OnBoard(FileOf(l) + i * d[1], RankOf(l) + i * d[2]) }
RaySquare(l, d, i) == Location(FileOf(l) + i * d[1], RankOf(l) + i * d[2])
Min(S) == CHOOSE x \in S : \A y \in S : x <= y

\* the moves C9 expects along one ray
ExpectedRay(b, l, side, d) ==
    LET occupied == { i \in RaySteps(l, d) : b[RaySquare(l, d, i)] # None } IN
    IF occupied = {}
    THEN { Relocate(RaySquare(l, d, i)) : i \in RaySteps(l, d) }
    ELSE LET k == Min(occupied) IN
         { Relocate(RaySquare(l, d, i)) : i \in 1..(k - 1) }
            \cup (IF b[RaySquare(l, d, k)].side # side
                  THEN {Capture(RaySquare(l, d, k))}
                  ELSE {})

\* C9: the moves of a rook, bishop or queen are, ray by ray, Relocate of the
\* squares before the first occupied square, plus Capture of that square when
\* it holds an enemy piece; an empty ray runs to the board edge and no square
\* off the ray is produced.
C9_SlidingRays ==
    (op = "generate_moves" /\ board[arg.from].piece_type \in {"Rook", "Bishop", "Queen"}) =>
        result = UNION { ExpectedRay(board, arg.from, board[arg.from].side, d) :
                           d \in RayDirs(board[arg.from].piece_type) }

\* C9 witness: a slider with one ray stopped by an own piece and a capture
\* on another ray
C9_Witness ==
    /\ op = "generate_moves"
    /\ board[arg.from].piece_type \in {"Rook", "Bishop", "Queen"}
    /\ \E mv \in result : mv[1] = "Capture"
    /\ \E d \in RayDirs(board[arg.from].piece_type) :
          /\ 2 \in RaySteps(arg.from, d)
          /\ board[RaySquare(arg.from, d, 1)] = None
          /\ board[RaySquare(arg.from, d, 2)] # None
          /\ board[RaySquare(arg.from, d, 2)].side = board[arg.from].side
          /\ Relocate(RaySquare(arg.from, d, 1)) \in result

FarRank(side) == IF side = "White" THEN 7 ELSE 0
Forward(side) == IF side = "White" THEN 1 ELSE -1

\* C10: a pawn move is tagged Promotion exactly when its destination is on
\* the far rank; the forward step onto an empty far-rank square and the
\* diagonal capture of an enemy piece on the far rank are both produced as
\* Promotion.
C10_PromotionTag ==
    (op = "generate_moves" /\ board[arg.from].piece_type = "Pawn") =>
        LET side == board[arg.from].side
            f == FileOf(arg.from)
            r == RankOf(arg.from) + Forward(side) IN
        /\ \A mv \in result :
              mv[1] = "Promotion" <=> RankOf(mv[2]) = FarRank(side)
        /\ r = FarRank(side) =>
              /\ board[Location(f, r)] = None => Promotion(Location(f, r)) \in result
              /\ \A g \in {f - 1, f + 1} :
                    (OnBoard(g, r) /\ board[Location(g, r)] # None
                        /\ board[Location(g, r)].side # side)
                    => Promotion(Location(g, r)) \in result

\* C10 witness: a pawn one step from the far rank promoting both by the
\* forward step and by a diagonal capture
C10_Witness ==
    /\ op = "generate_moves" /\ board[arg.from].piece_type = "Pawn"
    /\ \E mv \in result : mv[1] = "Promotion" /\ FileOf(mv[2]) = FileOf(arg.from)
    /\ \E mv \in result : mv[1] = "Promotion" /\ FileOf(mv[2]) # FileOf(arg.from)
                             /\ board[mv[2]] # None

StartRank(side) == IF side = "White" THEN 1 ELSE 6

\* the destinations of the generated moves on the file of the moved piece
SameFileDestinations == { mv[2] : mv \in { m \in result : FileOf(m[2]) = FileOf(arg.from) } }

\* C11: the pawn generator offers the single forward step exactly when that
\* square is empty, and the double step exactly when the pawn stands on its
\* starting rank and both the intermediate and the destination square are
\* empty; a pawn blocked directly in front has no forward move.
C11_PawnForwardSteps ==
    (op = "generate_moves" /\ board[arg.from].piece_type = "Pawn") =>
        LET side == board[arg.from].side
            f == FileOf(arg.from)
            r1 == RankOf(arg.from) + Forward(side)
            r2 == RankOf(arg.from) + 2 * Forward(side)
            one_free == OnBoard(f, r1) /\ board[Location(f, r1)] = None
            two_free == OnBoard(f, r2) /\ board[Location(f, r2)] = None IN
        /\ \A t \in SameFileDestinations : RankOf(t) \in {r1, r2}
        /\ (\E t \in SameFileDestinations : RankOf(t) = r1) <=> one_free
        /\ (\E t \in SameFileDestinations : RankOf(t) = r2)
              <=> (RankOf(arg.from) = StartRank(side) /\ one_free /\ two_free)
        /\ ~one_free => SameFileDestinations = {}

\* C11 witness: a pawn on its starting rank whose double step is refused
\* because only the destination square is occupied
C11_Witness ==
    /\ op = "generate_moves" /\ board[arg.from].piece_type = "Pawn"
    /\ RankOf(arg.from) = StartRank(board[arg.from].side)
    /\ Cardinality(SameFileDestinations) = 1
    /\ board[Location(FileOf(arg.from),
                      RankOf(arg.from) + 2 * Forward(board[arg.from].side))] # None

\* C12: the pawn generator offers a diagonal move only onto the two squares
\* one file aside and one rank forward, and exactly when the square holds a
\* piece of the opposing side; it offers no forward move onto an occupied
\* square.
C12_PawnDiagonalCaptures ==
    (op = "generate_moves" /\ board[arg.from].piece_type = "Pawn") =>
        LET side == board[arg.from].side
            f == FileOf(arg.from)
            r1 == RankOf(arg.from) + Forward(side) IN
        /\ \A mv \in result :
              IF FileOf(mv[2]) = f
              THEN board[mv[2]] = None
              ELSE /\ Abs(FileOf(mv[2]) - f) = 1
                   /\ RankOf(mv[2]) = r1
                   /\ board[mv[2]] # None
                   /\ board[mv[2]].side = Other(side)
        /\ \A g \in {f - 1, f + 1} :
              (OnBoard(g, r1) /\ board[Location(g, r1)] # None
                  /\ board[Location(g, r1)].side = Other(side))
              => \E mv \in result : mv[2] = Location(g, r1)

\* C12 witness: a pawn with an own piece on one forward diagonal and an
\* enemy piece on the other, offered the enemy's square only
C12_Witness ==
    /\ op = "generate_moves" /\ board[arg.from].piece_type = "Pawn"
    /\ \E t \in Locations, u \in Locations :
          /\ FileOf(t) # FileOf(arg.from) /\ FileOf(u) # FileOf(arg.from)
          /\ board[t] # None /\ board[t].side = board[arg.from].side
          /\ board[u] # None /\ board[u].side = Other(board[arg.from].side)
          /\ RankOf(t) = RankOf(u)
          /\ { mv[2] : mv \in { m \in result : FileOf(m[2]) # FileOf(arg.from) } } = {u}

\* the squares a knight or a king on l reaches in one step
StepTargets(l, piece_type) ==
    { t \in Locations :
        LET df == Abs(FileOf(t) - FileOf(l))
            dr == Abs(RankOf(t) - RankOf(l)) IN
        IF piece_type = "Knight"
        THEN {df, dr} = {1, 2}
        ELSE t # l /\ df <= 1 /\ dr <= 1 }

\* C13: the moves of a knight, and the non-castling moves of a king, are
\* exactly Relocate of every empty step target and Capture of every step
\* target holding an enemy piece; a target holding an own piece yields
\* nothing, and no other square of the board matters.
C13_StepMoves ==
    (op = "generate_moves" /\ board[arg.from].piece_type \in {"Knight", "King"}) =>
        LET targets == StepTargets(arg.from, board[arg.from].piece_type)
            side == board[arg.from].side IN
        { mv \in result : mv[1] # "Castle" }
            = { Relocate(t) : t \in { x \in targets : board[x] = None } }
                \cup { Capture(t) : t \in { x \in targets :
                           board[x] # None /\ board[x].side = Other(side) } }

\* C13 witness: a knight with an own piece on one target and an enemy piece
\* on another
C13_Witness ==
    /\ op = "generate_moves" /\ board[arg.from].piece_type = "Knight"
    /\ \E mv \in result : mv[1] = "Capture"
    /\ \E t \in StepTargets(arg.from, "Knight") :
          board[t] # None /\ board[t].side = board[arg.from].side

\* castling geometry on the rank of the king standing on k
KingSideCastle(k) == Castle(Location(6, RankOf(k)), Location(5, RankOf(k)))
QueenSideCastle(k) == Castle(Location(2, RankOf(k)), Location(3, RankOf(k)))
UnmovedRookOn(b, f, k) ==
    /\ b[Location(f, RankOf(k))].piece_type = "Rook"
    /\ b[Location(f, RankOf(k))].has_moved = FALSE
EmptyOn(b, fs, k) == \A f \in fs : b[Location(f, RankOf(k))] = None

\* C14: the king generator offers the kingside Castle only when king and
\* h-file rook have has_moved = false and the f and g squares are empty, the
\* queenside Castle only when king and a-file rook have has_moved = false and
\* the b, c and d squares are empty; with a rook of the king's side these
\* conditions also suffice, and no other Castle is offered.
C14_CastleConditions ==
    (op = "generate_moves" /\ board[arg.from].piece_type = "King") =>
        LET k == arg.from
            king_side_ok == /\ board[k].has_moved = FALSE
                            /\ UnmovedRookOn(board, 7, k)
                            /\ EmptyOn(board, {5, 6}, k)
            queen_side_ok == /\ board[k].has_moved = FALSE
                             /\ UnmovedRookOn(board, 0, k)
                             /\ EmptyOn(board, {1, 2, 3}, k) IN
        /\ KingSideCastle(k) \in result => king_side_ok
        /\ QueenSideCastle(k) \in result => queen_side_ok
        /\ (king_side_ok /\ board[Location(7, RankOf(k))].side = board[k].side)
              => KingSideCastle(k) \in result
        /\ (queen_side_ok /\ board[Location(0, RankOf(k))].side = board[k].side)
              => QueenSideCastle(k) \in result
        /\ \A mv \in result :
              mv[1] = "Castle" => mv \in {KingSideCastle(k), QueenSideCastle(k)}

\* C14 witness: an unmoved king with its own unmoved rooks on both corners,
\* kingside blocked on the f square and queenside offered
C14_Witness ==
    /\ op = "generate_moves" /\ board[arg.from].piece_type = "King"
    /\ board[arg.from].has_moved = FALSE
    /\ board[Location(7, RankOf(arg.from))] = Piece("Rook", board[arg.from].side)
    /\ board[Location(0, RankOf(arg.from))] = Piece("Rook", board[arg.from].side)
    /\ board[Location(5, RankOf(arg.from))] # None
    /\ KingSideCastle(arg.from) \notin result
    /\ QueenSideCastle(arg.from) \in result

\* C15: a Castle is offered only towards a corner rook of the king's own
\* side.
C15_CastleOwnRookOnly ==
    (op = "generate_moves" /\ board[arg.from].piece_type = "King") =>
        /\ KingSideCastle(arg.from) \in result
              => board[Location(7, RankOf(arg.from))].side = board[arg.from].side
        /\ QueenSideCastle(arg.from) \in result
              => board[Location(0, RankOf(arg.from))].side = board[arg.from].side

\* C16: a committed move leaves the moved piece with has_moved = true (the
\* flag is false after a reset and is set by the first committed move of the
\* piece).
C16_CommittedMoveSetsHasMoved ==
    [][(op' = "Move" /\ result' = "Ok")
          => \A l \in Locations :
                (board'[l] # board[l] /\ board'[l] # None) => board'[l].has_moved = TRUE]_vars

\* the board after both relocations of a Castle move of the king on k
Castled(b, k, mv) ==
    LET rook_from == Location(IF FileOf(mv[2]) = 6 THEN 7 ELSE 0, RankOf(k)) IN
    [x \in Locations |->
        IF x = mv[2] THEN b[k]
        ELSE IF x = mv[3] THEN b[rook_from]
        ELSE IF x \in {k, rook_from} THEN None
        ELSE b[x]]

\* C17: playing the king onto the king_target of a generated Castle, when
\* the castled position does not leave the king attacked, commits: king on
\* king_target, rook on rook_target, both origin squares empty, king_pos of
\* the mover on king_target and the active side switched.
C17_CastleCommitsBothRelocations ==
    [][\A mv \in KingMoveGen_generate_moves(board, arg'.from, active) :
          ( /\ op' \in {"try_move", "Move"}
            /\ mv[1] = "Castle" /\ mv[2] = arg'.to
            /\ Attackers(Castled(board, arg'.from, mv), mv[2]) = {} )
          => /\ result' = "Ok"
             /\ board' = Castled(board, arg'.from, mv)
             /\ king_pos'[active] = mv[2]
             /\ active' = Other(active)]_vars

\* the square on which the king of a side stands
KingSquare(b, side) ==
    CHOOSE l \in Locations : b[l].piece_type = "King" /\ b[l].side = side

\* every generated (from, to) of the side, once applied, leaves its king attacked
EveryMoveLeavesKingAttacked(b, side) ==
    \A f \in { l \in Locations : b[l] # None /\ b[l].side = side } :
        \A t \in Destinations(b, f) :
            LET moved == Board_action(b, MoveAction(f, t)) IN
            Attackers(moved, KingSquare(moved, side)) # {}

\* C18: is_checkmate returns true exactly when every pseudo-legal move of
\* every piece of the active side, once applied, leaves that side's king
\* attacked.
C18_CheckmateIffNoEscape ==
    op = "is_checkmate" =>
        ((pc = "done") <=> EveryMoveLeavesKingAttacked(board, active))

\* a White king on a1 and Black rooks on the given squares, nothing else
KingA1WithRooks(rooks) ==
    [x \in Locations |->
        IF x = A1 THEN Piece("King", "White")
        ELSE IF x \in rooks THEN Piece("Rook", "Black")
        ELSE None]

\* C19 as stated: White king a1, Black rooks a8 and h2, White to move: the
\* position is reported terminal and the king in check; without the h2 rook
\* the position is reported non-terminal.
C19_RooksA8H2Terminal ==
    /\ (board = KingA1WithRooks({A8, H2}) /\ op = "is_checkmate") => result = TRUE
    /\ (board = KingA1WithRooks({A8, H2}) /\ op = "is_checked") => result = TRUE
    /\ (board = KingA1WithRooks({A8}) /\ op = "is_checkmate") => result = FALSE

\* C19 amended: with Black rooks on a8 and h2 the king is reported in check
\* and the position non-terminal (b1 is attacked by neither rook); without
\* the h2 rook it is non-terminal as well; with the second rook on b8
\* instead of h2 it is reported terminal.
C19_RooksA8H2NotTerminal ==
    /\ (board = KingA1WithRooks({A8, H2}) /\ op = "is_checkmate") => result = FALSE
    /\ (board = KingA1WithRooks({A8, H2}) /\ op = "is_checked") => result = TRUE
    /\ (board = KingA1WithRooks({A8}) /\ op = "is_checkmate") => result = FALSE
    /\ (board = KingA1WithRooks({A8, B8}) /\ op = "is_checkmate") => result = TRUE

\* C19 witness: is_checkmate has answered on the a8 / h2 position
C19_Witness ==
    /\ board = KingA1WithRooks({A8, H2})
    /\ active = "White" /\ king_pos["White"] = A1
    /\ op = "is_checkmate" /\ result = FALSE

\* C20: a position in which no move of the active side survives the
\* legality filter but whose king is not attacked is not reported as
\* checkmate by is_checkmate.
C20_StalemateIsNotCheckmate ==
    (op = "is_checkmate" /\ Attackers(board, king_pos[active]) = {}) => result = FALSE

\* C21: is_checkmate commits nothing: when it returns, with either result,
\* every square of the board, king_pos of both sides and the active side
\* are what they were before the call, also when simulated moves capture.
C21_IsCheckmateCommitsNothing ==
    op = "is_checkmate" => StateAsBefore

\* C21 witness: is_checkmate has returned on a position in which the active
\* side has a capture among its candidate moves
C21_Witness ==
    /\ op = "is_checkmate"
    /\ \E a \in my_piece_legal_moves_location(board, active) :
           board[a.to] # None /\ board[a.to].side = Other(active)

\* C22: Location::offset(rank_offset, file_offset) returns Ok with the
\* shifted location exactly when both the resulting rank index and the
\* resulting file index lie in 0..7, and returns Err otherwise, negative
\* results included; it never yields a square outside the board and never
\* wraps.
C22_OffsetOkIffOnBoard ==
    op = "offset" =>
        LET f == FileOf(arg.from) + arg.file_offset
            r == RankOf(arg.from) + arg.rank_offset IN
        result = IF f \in 0..7 /\ r \in 0..7 THEN <<"Ok", {r * 8 + f}>>
                 ELSE <<"Err", {}>>

\* C23: parsing a location from text succeeds exactly when the text is two
\* characters, a file letter a-h in either case followed by a rank digit
\* 1-8, and yields that square; every other text (wrong length, file outside
\* a-h, rank 0 or 9, a rank that is no digit, a file that is no letter)
\* returns an error value instead of panicking.
C23_ParseOkIffWellFormed ==
    op = "from" =>
        LET well_formed == /\ Len(arg) = 2
                           /\ arg[1] \in (97..104) \cup (65..72)
                           /\ arg[2] \in 49..56
            file == IF arg[1] >= 97 THEN arg[1] - 97 ELSE arg[1] - 65
            rank == arg[2] - 49 IN
        result = IF well_formed THEN <<"Ok", {rank * 8 + file}>> ELSE <<"Err", {}>>

\* the piece type the standard opening position has on a square (rank and
\* file indexes from 0), "None" for the four middle ranks
OpeningType(f, r) ==
    IF r \in {1, 6} THEN "Pawn"
    ELSE IF r \in 2..5 THEN "None"
    ELSE IF f \in {0, 7} THEN "Rook"
    ELSE IF f \in {1, 6} THEN "Knight"
    ELSE IF f \in {2, 5} THEN "Bishop"
    ELSE IF f = 3 THEN "Queen"
    ELSE "King"

\* C24: right after Game::start has reset the board the position is the
\* standard opening layout (16 pieces per side, White on ranks 1-2, Black on
\* ranks 7-8, kings on e1 and e8, queens on d1 and d8), king_pos is
\* [e1, e8] and names the squares the kings stand on, and White is the
\* active side.
C24_StartIsOpeningPosition ==
    op = "reset_board" =>
        /\ \A f \in 0..7, r \in 0..7 :
               LET p == board[r * 8 + f] IN
               /\ p.piece_type = OpeningType(f, r)
               /\ p.side = IF r <= 1 THEN "White" ELSE IF r >= 6 THEN "Black" ELSE "None"
        /\ \A s \in Sides :
               Cardinality({ l \in Locations : board[l].side = s }) = 16
        /\ king_pos = [s \in Sides |-> IF s = "White" THEN 4 ELSE 60]
        /\ \A s \in Sides : board[king_pos[s]].piece_type = "King"
                            /\ board[king_pos[s]].side = s
        /\ active = "White"

\* C24 witness: the start sequence has reset the board and rendered it, and
\* the loop has not yet been entered
C24_Witness ==
    /\ op = "reset_board" /\ pc = "check" /\ n = 0
    /\ gui = <<"render">>
    /\ board[3].piece_type = "Queen" /\ board[59].piece_type = "Queen"

\* C25: in the game loop the render sink is called once after every
\* committed move and once after every ShowMoveOption query, after the
\* action was requested and before the next one is.
C25_RenderAfterEveryQuery ==
    /\ (op = "Move" /\ result = "Ok") =>
           gui = <<"wait_and_process_event", "render">>
    /\ op = "ShowMoveOption" =>
           gui = <<"wait_and_process_event", "render">>

\* C25 amended: the render sink is called once after every committed move,
\* and once after a ShowMoveOption query exactly when the queried square
\* holds a piece; a query of an empty square renders nothing.
C25_RenderAfterOccupiedQuery ==
    /\ (op = "Move" /\ result = "Ok") =>
           gui = <<"wait_and_process_event", "render">>
    /\ op = "ShowMoveOption" =>
           gui = IF BoardBefore[arg.from].piece_type \in PieceTypes
                 THEN <<"wait_and_process_event", "render">>
                 ELSE <<"wait_and_process_event">>

\* C25 witness: a ShowMoveOption query of an occupied square was rendered
C25_Witness ==
    /\ op = "ShowMoveOption"
    /\ board[arg.from].piece_type \in PieceTypes
    /\ gui = <<"wait_and_process_event", "render">>

\* C26: get_checked_pieces_location returns the empty list, and is_checked
\* false, whenever the queried square holds no piece, whatever other pieces
\* stand on the board.
C26_EmptySquareIsNotChecked ==
    (op = "get_checked_pieces_location" /\ board[arg.from].piece_type \notin PieceTypes) =>
        (result = {} /\ ~is_checked(arg.from, board))

\* C26 witness: the call was made on an empty square that a Black rook or
\* queen attacks along an open line
C26_Witness ==
    /\ op = "get_checked_pieces_location"
    /\ board[arg.from].piece_type \notin PieceTypes
    /\ \E a \in Locations : board[a].side = "Black" /\ Attacks(board, a, arg.from)

\* C27: in every state reachable from the opening position through the
\* game loop each side has exactly one king on the board: a king is never
\* captured and never duplicated.
C27_OneKingPerSide ==
    pc # "new" =>
        \A s \in Sides :
            Cardinality({ l \in Locations : board[l].piece_type = "King"
                                            /\ board[l].side = s }) = 1

\* number of pieces a side has on the board
PieceCount(b, side) == Cardinality({ l \in Locations : b[l].side = side })

\* C28: for every Move that passes validate_move and is committed by
\* try_move, the mover's piece count is unchanged and the opponent's count
\* drops by one exactly when action.to held an opponent piece, and is
\* unchanged otherwise.
C28_CommittedMovePieceCounts ==
    (op = "Move" /\ result = "Ok") =>
        /\ PieceCount(board, ActiveBefore) = PieceCount(BoardBefore, ActiveBefore)
        /\ PieceCount(board, Other(ActiveBefore)) =
               IF BoardBefore[arg.to].side = Other(ActiveBefore)
               THEN PieceCount(BoardBefore, Other(ActiveBefore)) - 1
               ELSE PieceCount(BoardBefore, Other(ActiveBefore))

\* C28 witness: a committed Move captured the Black piece
C28_Witness ==
    /\ op = "Move" /\ result = "Ok"
    /\ arg.from # arg.to
    /\ PieceCount(board, "Black") = 0
    /\ board[arg.to].side = "White"

\* C29: in the game loop a ShowMoveOption action and a Move that fails
\* validate_move leave board, king_pos and active unchanged; only a Move
\* that passes validate_move and try_move changes the committed state.
C29_OnlyCommittedMoveChangesState ==
    op \in {"ShowMoveOption", "Move"} =>
        /\ op = "ShowMoveOption" => StateAsBefore
        /\ (op = "Move" /\ NotValid(BoardBefore, ActiveBefore, arg)) => StateAsBefore
        /\ ~StateAsBefore =>
               (op = "Move" /\ ~NotValid(BoardBefore, ActiveBefore, arg) /\ result = "Ok")

\* C29 witness: a Move naming a piece of the active side and a square its
\* generator does not produce was refused
C29_Witness ==
    /\ op = "Move" /\ result = "Invalid"
    /\ board[arg.from].side = active
    /\ arg.from # arg.to

\* C30: the loop requests an action only right after is_checkmate was
\* evaluated and returned false; once is_checkmate returns true the loop
\* has ended: no further action is consumed and board, king_pos and active
\* stay as they are.
C30_LoopEndsAtCheckmate ==
    [][/\ pc # "done"
       /\ op' \in {"ShowMoveOption", "Move"} => (pc = "wait" /\ op = "is_checkmate")
       /\ op' = "is_checkmate" =>
              /\ pc' = IF is_checkmate(board, active, king_pos) THEN "done" ELSE "wait"
              /\ GameStateUnchanged]_vars

\* C30 witness: the loop has ended after at least one committed move
C30_Witness ==
    /\ pc = "done" /\ op = "is_checkmate" /\ n > 0

====
